---- MODULE Spec2Model ----
(***************************************************************************)
(* A model of the AI-overview brand tracker (src/ai_brand_tracker.py):     *)
(* the URL normaliser, the link extractor and text flattener, the brand    *)
(* match engine find_brands_in_aio, process_keyword and the main loop.     *)
(*                                                                         *)
(* Python strings are sequences of one-character strings, so that lower(), *)
(* startswith(), endswith() and the substring test are computed and not    *)
(* assumed.  JSON values are records [t, s, kv]: t is the JSON type, s the *)
(* characters of a string, kv the entries of a list (k = "") or the        *)
(* key/value pairs of an object in insertion order.                        *)
(***************************************************************************)
EXTENDS Integers, Sequences, FiniteSets, TLC

VARIABLES
    pc,              \* position of the program under study
    parts,           \* normalize_host: the pieces the input string is made of
    u,               \* normalize_host: the input string
    host_out,        \* normalize_host: [raised, value] once it has returned
    aio_json,        \* find_brands_in_aio: the overview payload
    brands,          \* the catalog file brands.json
    keyword,         \* find_brands_in_aio: the keyword
    GEMINI_API_KEY,  \* whether the module global GEMINI_API_KEY is set
    llm,             \* what the sentiment classifier does when called
    url_order,       \* the order in which the set urls was iterated
    found,           \* find_brands_in_aio: [raised, rows] once it has ended
    keywords,        \* main: the keywords read from keywords.csv
    idx,             \* main: how many keywords the loop has gone through
    store,           \* the output file: [exists, lines]
    stats,           \* main: the tally
    last,            \* main: how the last iteration of the loop went
    run_start,       \* main: the number of lines of the store when the run began
    runs,            \* how many runs of main have begun
    data,            \* process_keyword: what the fetch returned
    saves,           \* process_keyword: how many save_json calls can succeed
    result,          \* process_keyword: [raised, rows, status, key] at its end
    net,             \* fetch: what each request to the search API does
    body,            \* fetch: the body of a valid response
    requests_made    \* fetch: how many requests were sent

hostVars == <<parts, u, host_out>>
matchVars == <<aio_json, keyword, url_order, found>>
envVars == <<brands, GEMINI_API_KEY, llm>>
mainVars == <<keywords, idx, store, stats, last, run_start, runs>>
kwVars == <<data, saves, result, net, body, requests_made>>
vars == <<pc, hostVars, matchVars, envVars, mainVars, kwVars>>

(***************************************************************************)
(* Strings                                                                 *)
(***************************************************************************)
LowerLetters ==
    {"a","b","c","d","e","f","g","h","i","j","k","l","m",
     "n","o","p","q","r","s","t","u","v","w","x","y","z"}

UpperLetters ==
    {"A","B","C","D","E","F","G","H","I","J","K","L","M",
     "N","O","P","Q","R","S","T","U","V","W","X","Y","Z"}

Digits == {"0","1","2","3","4","5","6","7","8","9"}

\* str.lower() on one character
LowerChar(c) ==
    CASE c = "A" -> "a" [] c = "B" -> "b" [] c = "C" -> "c" [] c = "D" -> "d"
      [] c = "E" -> "e" [] c = "F" -> "f" [] c = "G" -> "g" [] c = "H" -> "h"
      [] c = "I" -> "i" [] c = "J" -> "j" [] c = "K" -> "k" [] c = "L" -> "l"
      [] c = "M" -> "m" [] c = "N" -> "n" [] c = "O" -> "o" [] c = "P" -> "p"
      [] c = "Q" -> "q" [] c = "R" -> "r" [] c = "S" -> "s" [] c = "T" -> "t"
      [] c = "U" -> "u" [] c = "V" -> "v" [] c = "W" -> "w" [] c = "X" -> "x"
      [] c = "Y" -> "y" [] c = "Z" -> "z" [] OTHER -> c

\* str.lower()
Lower(s) == [i \in 1..Len(s) |-> LowerChar(s[i])]

\* s.startswith(p)
StartsWith(s, p) == Len(p) <= Len(s) /\ SubSeq(s, 1, Len(p)) = p

\* s.endswith(p)
EndsWith(s, p) ==
    Len(p) <= Len(s) /\ SubSeq(s, Len(s) - Len(p) + 1, Len(s)) = p

\* t in text (substring test; the empty string is in every string)
Contains(text, t) ==
    \E i \in 0..(Len(text) - Len(t)) : SubSeq(text, i + 1, i + Len(t)) = t

\* s[n:]
DropFirst(s, n) == SubSeq(s, n + 1, Len(s))

\* s.find(c) for a set of characters, 1-based; 0 when none occurs from `from`
FindAny(s, cs, from) ==
    LET hits == {i \in from..Len(s) : s[i] \in cs}
    IN IF hits = {} THEN 0 ELSE CHOOSE i \in hits : \A j \in hits : i <= j

RECURSIVE Concat(_)
\* "".join(list)
Concat(list) ==
    IF list = <<>> THEN <<>> ELSE Head(list) \o Concat(Tail(list))

S_http == <<"h","t","t","p">>
S_www == <<"w","w","w",".">>

(***************************************************************************)
(* normalize_host                                                          *)
(***************************************************************************)
\* urllib.parse: scheme_chars
SchemeChars == LowerLetters \cup UpperLetters \cup Digits \cup {"+", "-", "."}

\* urlsplit: what is left of the url once a leading "scheme:" is split off
AfterScheme(url) ==
    LET i == FindAny(url, {":"}, 1)
    IN IF /\ i > 1
          /\ url[1] \in LowerLetters \cup UpperLetters
          /\ \A j \in 1..(i - 1) : url[j] \in SchemeChars
       THEN DropFirst(url, i)
       ELSE url

\* urlparse(u).netloc: [raised, netloc]; an unbalanced bracket in the
\* network location is urlsplit's ValueError("Invalid IPv6 URL")
urlparse_netloc(url) ==
    LET rest == AfterScheme(url)
    IN IF ~StartsWith(rest, <<"/","/">>)
       THEN [raised |-> FALSE, netloc |-> <<>>]
       ELSE LET d == FindAny(rest, {"/", "?", "#"}, 3)
                delim == IF d = 0 THEN Len(rest) + 1 ELSE d
                netloc == SubSeq(rest, 3, delim - 1)
                open == \E k \in 1..Len(netloc) : netloc[k] = "["
                close == \E k \in 1..Len(netloc) : netloc[k] = "]"
            IN IF open # close
               THEN [raised |-> TRUE, netloc |-> <<>>]
               ELSE [raised |-> FALSE, netloc |-> netloc]

\* normalize_host without its try/except: the parser's error propagates
normalize_host_nocatch(url) ==
    LET p == urlparse_netloc(url)
        host == Lower(p.netloc)
    IN IF p.raised
       THEN [raised |-> TRUE, value |-> <<>>]
       ELSE [raised |-> FALSE,
             value |-> IF StartsWith(host, S_www) THEN DropFirst(host, 4)
                       ELSE host]

\* normalize_host(u): [raised, value]
normalize_host(url) ==
    LET p == urlparse_netloc(url)
        host == Lower(p.netloc)
    IN IF p.raised
       THEN [raised |-> FALSE, value |-> <<>>]
       ELSE [raised |-> FALSE,
             value |-> IF StartsWith(host, S_www) THEN DropFirst(host, 4)
                       ELSE host]

(***************************************************************************)
(* JSON values                                                             *)
(***************************************************************************)
JNull == [t |-> "null", s |-> <<>>, kv |-> <<>>]

\* a non-zero number
JNum == [t |-> "num", s |-> <<>>, kv |-> <<>>]

JStr(chars) == [t |-> "str", s |-> chars, kv |-> <<>>]

JList(items) ==
    [t |-> "list", s |-> <<>>,
     kv |-> [i \in 1..Len(items) |-> [k |-> "", v |-> items[i]]]]

\* pairs: a sequence of <<key, value>>, keys distinct
JDict(pairs) ==
    [t |-> "dict", s |-> <<>>,
     kv |-> [i \in 1..Len(pairs) |-> [k |-> pairs[i][1], v |-> pairs[i][2]]]]

\* d.get(key): None when the key is missing
Get(d, key) ==
    LET hits == {i \in 1..Len(d.kv) : d.kv[i].k = key}
    IN IF hits = {} THEN JNull ELSE d.kv[CHOOSE i \in hits : TRUE].v

\* key in d
HasKey(d, key) == \E i \in 1..Len(d.kv) : d.kv[i].k = key

\* bool(v)
Truthy(v) ==
    CASE v.t = "null" -> FALSE
      [] v.t = "num" -> TRUE
      [] v.t = "str" -> Len(v.s) > 0
      [] OTHER -> Len(v.kv) > 0

\* v or []
OrEmptyList(v) == IF Truthy(v) THEN v ELSE JList(<<>>)

\* whether "for x in v" starts at all; a number raises TypeError
Iterable(v) == v.t \in {"list", "dict", "str"}

\* the dict elements "for x in v" yields: iterating a dict gives its keys
\* and iterating a string its characters, none of which is a dict
DictItems(v) ==
    IF v.t = "list"
    THEN {v.kv[i].v : i \in {j \in 1..Len(v.kv) : v.kv[j].v.t = "dict"}}
    ELSE {}

\* the accepted links of a list of entries:
\*   link = x.get("link"); isinstance(link, str) and link.startswith("http")
LinksOf(v) ==
    {Get(x, "link").s :
        x \in {y \in DictItems(v) :
                 /\ Get(y, "link").t = "str"
                 /\ StartsWith(Get(y, "link").s, S_http)}}

(***************************************************************************)
(* extract_urls_from_aio and flatten_json                                  *)
(***************************************************************************)
\* the links of one text block: [raised, urls]
BlockLinks(block) ==
    LET sl == OrEmptyList(Get(block, "snippet_links"))
        lst == Get(block, "list")
    IN IF ~Iterable(sl)
       THEN [raised |-> TRUE, urls |-> {}]
       ELSE [raised |-> FALSE,
             urls |-> LinksOf(sl) \cup
                      (IF lst.t = "list" THEN LinksOf(lst) ELSE {})]

\* extract_urls_from_aio(aio_json): [raised, urls]
extract_urls_from_aio(aio) ==
    IF aio.t # "dict"
    THEN [raised |-> FALSE, urls |-> {}]
    ELSE LET refs == OrEmptyList(Get(aio, "references"))
             blocks == OrEmptyList(Get(aio, "text_blocks"))
             per == {BlockLinks(b) : b \in DictItems(blocks)}
         IN IF ~Iterable(refs) \/ ~Iterable(blocks) \/ \E r \in per : r.raised
            THEN [raised |-> TRUE, urls |-> {}]
            ELSE [raised |-> FALSE,
                  urls |-> LinksOf(refs) \cup UNION {r.urls : r \in per}]

RECURSIVE flatten_json(_)
RECURSIVE FlattenAll(_)
\* the concatenation of flatten_json over the entries of a list or dict
FlattenAll(kv) ==
    IF kv = <<>> THEN <<>>
    ELSE flatten_json(Head(kv).v) \o FlattenAll(Tail(kv))

\* flatten_json(obj): the string leaves, in traversal order
flatten_json(obj) ==
    CASE obj.t \in {"dict", "list"} -> FlattenAll(obj.kv)
      [] obj.t = "str" -> <<obj.s>>
      [] OTHER -> <<>>

RECURSIVE JoinSpace(_)
\* " ".join(list)
JoinSpace(list) ==
    IF list = <<>> THEN <<>>
    ELSE IF Len(list) = 1 THEN Head(list)
    ELSE Head(list) \o <<" ">> \o JoinSpace(Tail(list))

\* flat_text = " ".join(flatten_json(aio_json)).lower()
FlatText(aio) == Lower(JoinSpace(flatten_json(aio)))

(***************************************************************************)
(* get_llm_sentiment                                                       *)
(*   cls is what the classifier does during one call of                    *)
(*   find_brands_in_aio: [init, attempts]: whether GenerativeModel()       *)
(*   succeeds and the outcome                                              *)
(*   of each generate_content attempt:  a label, "other" (an unexpected    *)
(*   answer), "fail" (an exception) or "badkey" (API key not valid).       *)
(***************************************************************************)
Retries == 3
MinTextLen == 20
ContextLimit == 200

RECURSIVE SentimentAttempts(_, _)
\* the retry loop, from attempt n on (1-based): [label, key, raised]
SentimentAttempts(cls, n) ==
    IF n > Retries
    THEN [label |-> "error", key |-> TRUE, raised |-> FALSE]
    ELSE LET o == cls.attempts[n]
         IN CASE o \in {"good", "neutral", "bad"} ->
                     [label |-> o, key |-> TRUE, raised |-> FALSE]
              [] o = "other" ->
                     [label |-> "neutral", key |-> TRUE, raised |-> FALSE]
              [] o = "badkey" ->
                     [label |-> "api_key_invalid", key |-> FALSE,
                      raised |-> FALSE]
              [] OTHER -> SentimentAttempts(cls, n + 1)

\* get_llm_sentiment(overview_text, brand) with GEMINI_API_KEY set (key) or
\* not: [label, key, raised], key being GEMINI_API_KEY afterwards;
\* len() of a number is a TypeError
get_llm_sentiment(key, overview_text, cls) ==
    IF ~key
    THEN [label |-> "not_configured", key |-> FALSE, raised |-> FALSE]
    ELSE IF ~Truthy(overview_text)
    THEN [label |-> "no_text", key |-> TRUE, raised |-> FALSE]
    ELSE IF overview_text.t = "num"
    THEN [label |-> "", key |-> TRUE, raised |-> TRUE]
    ELSE IF (IF overview_text.t = "str" THEN Len(overview_text.s)
             ELSE Len(overview_text.kv)) < MinTextLen
    THEN [label |-> "no_text", key |-> TRUE, raised |-> FALSE]
    ELSE IF ~cls.init
    THEN [label |-> "model_error", key |-> TRUE, raised |-> FALSE]
    ELSE SentimentAttempts(cls, 1)

(***************************************************************************)
(* find_brands_in_aio                                                      *)
(*   catalog is the catalog file brands.json: a sequence, in file order,   *)
(*   of [domain, aliases], aliases being any JSON value but an object.     *)
(***************************************************************************)
\* [a.lower() for a in aliases]: [raised, terms].  Iterating null or a
\* number is a TypeError, a.lower() of a non-string an AttributeError;
\* iterating a string yields its characters.
AliasTerms(aliases) ==
    CASE aliases.t = "list" ->
            IF \E i \in 1..Len(aliases.kv) : aliases.kv[i].v.t # "str"
            THEN [raised |-> TRUE, terms |-> <<>>]
            ELSE [raised |-> FALSE,
                  terms |-> [i \in 1..Len(aliases.kv) |->
                                Lower(aliases.kv[i].v.s)]]
      [] aliases.t = "str" ->
            [raised |-> FALSE,
             terms |-> [i \in 1..Len(aliases.s) |->
                           <<LowerChar(aliases.s[i])>>]]
      [] OTHER -> [raised |-> TRUE, terms |-> <<>>]

RECURSIVE BuildBrandMap(_, _)
\* the dict comprehension brand_map, entry by entry: a key met again keeps
\* its place and takes the later value
BuildBrandMap(catalog, acc) ==
    IF catalog = <<>> \/ acc.raised THEN acc
    ELSE LET e == Head(catalog)
             key == Lower(e.domain)
             at == AliasTerms(e.aliases)
             entry == [domain |-> key, terms |-> <<key>> \o at.terms]
             old == {i \in 1..Len(acc.map) : acc.map[i].domain = key}
         IN IF at.raised
            THEN [raised |-> TRUE, map |-> <<>>]
            ELSE BuildBrandMap(Tail(catalog),
                    [raised |-> FALSE,
                     map |-> IF old = {} THEN Append(acc.map, entry)
                             ELSE [i \in 1..Len(acc.map) |->
                                     IF i \in old THEN entry
                                     ELSE acc.map[i]]])

\* brand_map: [raised, map], map a sequence of [domain, terms]
BrandMap(catalog) == BuildBrandMap(catalog, [raised |-> FALSE, map |-> <<>>])

\* overview_text: "answer", else "snippet", else ""
OverviewText(aio) ==
    IF Truthy(Get(aio, "answer")) THEN Get(aio, "answer")
    ELSE IF Truthy(Get(aio, "snippet")) THEN Get(aio, "snippet")
    ELSE JStr(<<>>)

\* domain_core
DomainCore(domain) ==
    IF StartsWith(domain, S_www) THEN DropFirst(domain, 4) ELSE domain

\* the host test of the URL tier: h.endswith(domain_core)
HostMatches(h, domain_core) == EndsWith(h, domain_core)

\* the places in hosts (ord: the iteration order of the set urls) that the
\* URL tier accepts for a domain
UrlHits(ord, domain_core) ==
    {i \in 1..Len(ord) : HostMatches(normalize_host(ord[i]).value, domain_core)}

\* the places in terms[1:] of the terms found in flat_text
AliasHits(terms, flat_text) ==
    {j \in 2..Len(terms) : Contains(flat_text, terms[j])}

Min(S) == CHOOSE x \in S : \A y \in S : x <= y

Row(kw, domain, term, text, sentiment, context, url, source) ==
    [Keyword |-> kw, Brand |-> domain, MatchedTerm |-> term,
     Text |-> text, Sentiment |-> sentiment, Context |-> context,
     URL |-> url, Source |-> source]

\* the row of the URL tier for the place hit of hosts: results.append([...])
UrlRow(e, kw, ord, hit, text, label, source) ==
    Row(kw, e.domain, e.domain, text, label,
        SubSeq(ord[hit], 1,
               IF Len(ord[hit]) < ContextLimit THEN Len(ord[hit])
               ELSE ContextLimit),
        ord[hit], source)

\* the row of the alias tier: any_url = next(iter(urls), "")
AliasRow(e, kw, ord, alias, text, label, source) ==
    Row(kw, e.domain, alias, text, label, alias,
        IF ord = <<>> THEN <<>> ELSE ord[1], source)

\* acc after the sentiment call s and results.append(row); an exception of
\* the call leaves the loop
Record(acc, pair, s, row) ==
    IF s.raised THEN [acc EXCEPT !.raised = TRUE, !.seen = @ \cup {pair}]
    ELSE [acc EXCEPT !.seen = @ \cup {pair},
                     !.key = s.key,
                     !.rows = Append(@, row)]

\* the two tiers for one domain: uh are the places the URL tier accepts,
\* ah the places of the aliases found, s the sentiment call
Tiers(e, acc, kw, ord, uh, ah, s, text, source) ==
    IF uh # {} /\ <<kw, e.domain>> \notin acc.seen
    THEN Record(acc, <<kw, e.domain>>, s,
                UrlRow(e, kw, ord, Min(uh), text, s.label, source))
    ELSE IF ah # {} /\ e.terms[Min(ah)] # <<>> /\ <<kw, e.domain>> \notin acc.seen
    THEN Record(acc, <<kw, e.domain>>, s,
                AliasRow(e, kw, ord, e.terms[Min(ah)], text, s.label, source))
    ELSE acc

\* both tiers for one domain, each recording its row, without a seen set
BothTiers(e, acc, kw, ord, uh, ah, s, text, source) ==
    [acc EXCEPT !.rows =
        @ \o (IF uh = {} THEN <<>>
              ELSE <<UrlRow(e, kw, ord, Min(uh), text, s.label, source)>>)
          \o (IF ah = {} \/ e.terms[Min(ah)] = <<>> THEN <<>>
              ELSE <<AliasRow(e, kw, ord, e.terms[Min(ah)], text, s.label,
                              source)>>)]

\* one iteration that records a row for each tier with evidence and keeps
\* no seen set
BrandStepBothTiers(e, acc, kw, ord, flat_text, text, cls, source) ==
    BothTiers(e, acc, kw, ord, UrlHits(ord, DomainCore(e.domain)),
              AliasHits(e.terms, flat_text),
              get_llm_sentiment(acc.key, text, cls), text, source)

\* one iteration of "for domain, terms in brand_map.items()"
BrandStep(e, acc, kw, ord, flat_text, text, cls, source) ==
    Tiers(e, acc, kw, ord, UrlHits(ord, DomainCore(e.domain)),
          AliasHits(e.terms, flat_text), get_llm_sentiment(acc.key, text, cls),
          text, source)

RECURSIVE BrandLoop(_, _, _, _, _, _, _, _)
\* the loop over brand_map from entry k on; an exception ends it
BrandLoop(map, k, acc, kw, ord, flat_text, text, cls) ==
    IF k > Len(map) \/ acc.raised THEN acc
    ELSE BrandLoop(map, k + 1,
                   BrandStep(map[k], acc, kw, ord, flat_text, text, cls,
                             "SerpApi"),
                   kw, ord, flat_text, text, cls)

\* what find_brands_in_aio returns after its loop ended in acc
Returned(acc) ==
    [raised |-> acc.raised,
     rows |-> IF acc.raised THEN <<>> ELSE acc.rows,
     key |-> acc.key]

\* find_brands_in_aio(aio_json, brands_file, kw): [raised, rows, key].
\* ord is the order in which this run iterates the set urls; key is
\* GEMINI_API_KEY before and, in the result, after the call.
find_brands_in_aio(aio, catalog, kw, ord, key, cls) ==
    IF BrandMap(catalog).raised \/ extract_urls_from_aio(aio).raised
    THEN [raised |-> TRUE, rows |-> <<>>, key |-> key]
    ELSE Returned(BrandLoop(BrandMap(catalog).map, 1,
                            [rows |-> <<>>, seen |-> {}, key |-> key,
                             raised |-> FALSE],
                            kw, ord, FlatText(aio), OverviewText(aio), cls))

\* the orders in which a set of urls may be iterated
Orders(urls) ==
    {o \in [1..Cardinality(urls) -> urls] :
        \A i, j \in 1..Cardinality(urls) : i # j => o[i] # o[j]}

(***************************************************************************)
(* fetch_google_search_serpapi and process_keyword                         *)
(***************************************************************************)
max_retries == 3

\* what one request may do
AttemptOutcomes ==
    {"ok", "timeout", "request_error", "api_error", "invalid_key",
     "no_metadata", "unexpected"}

RECURSIVE FetchFromRetryAll(_, _, _)
\* a retry loop that goes on to the next attempt after every failure
FetchFromRetryAll(outs, resp, n) ==
    IF n > max_retries THEN [data |-> JNull, requests |-> max_retries]
    ELSE IF outs[n] = "ok" THEN [data |-> resp, requests |-> n]
    ELSE FetchFromRetryAll(outs, resp, n + 1)

RECURSIVE FetchFrom(_, _, _)
\* the retry loop from attempt n on: [data, requests]; data is None (JNull)
\* when no attempt succeeds; outs[n] is what request n does and resp the
\* body of a valid response
FetchFrom(outs, resp, n) ==
    IF n > max_retries THEN [data |-> JNull, requests |-> max_retries]
    ELSE CASE outs[n] = "ok" -> [data |-> resp, requests |-> n]
           [] outs[n] \in {"invalid_key", "unexpected"} ->
                 [data |-> JNull, requests |-> n]
           [] outs[n] \in {"api_error", "no_metadata"} ->
                 IF n < max_retries THEN FetchFrom(outs, resp, n + 1)
                 ELSE [data |-> JNull, requests |-> n]
           [] OTHER -> FetchFrom(outs, resp, n + 1)

\* fetch_google_search_serpapi(keyword)
fetch_google_search_serpapi(outs, resp) == FetchFrom(outs, resp, 1)

NoRows == [raised |-> FALSE, rows |-> <<>>, status |-> "", key |-> FALSE]

\* return rows, "SUCCESS", rows being what find_brands_in_aio returned
Success(r) ==
    [raised |-> r.raised, rows |-> r.rows,
     status |-> IF r.raised THEN "" ELSE "SUCCESS", key |-> r.key]

\* process_keyword that reports a null ai_overview as NO_AIO
process_keyword_nullnoaio(dat, catalog, kw, ord, key, cls, ok_saves) ==
    IF ~Truthy(dat)
    THEN [NoRows EXCEPT !.status = "API_ERROR", !.key = key]
    ELSE IF ok_saves = 0
    THEN [NoRows EXCEPT !.raised = TRUE, !.key = key]
    ELSE IF ~HasKey(dat, "ai_overview") \/ Get(dat, "ai_overview").t # "dict"
    THEN [NoRows EXCEPT !.status = "NO_AIO", !.key = key]
    ELSE IF ok_saves = 1
    THEN [NoRows EXCEPT !.raised = TRUE, !.key = key]
    ELSE Success(find_brands_in_aio(Get(dat, "ai_overview"), catalog, kw,
                                    ord, key, cls))

\* process_keyword(keyword, brands_file): [raised, rows, status, key].
\* dat is what the fetch returned; ok_saves is how many calls of save_json
\* (SAVE_JSON is True) can write their file before one raises; key is
\* GEMINI_API_KEY before and after.
process_keyword(dat, catalog, kw, ord, key, cls, ok_saves) ==
    IF ~Truthy(dat)
    THEN [NoRows EXCEPT !.status = "API_ERROR", !.key = key]
    ELSE IF ok_saves = 0
    THEN [NoRows EXCEPT !.raised = TRUE, !.key = key]
    ELSE IF ~HasKey(dat, "ai_overview")
    THEN [NoRows EXCEPT !.status = "NO_AIO", !.key = key]
    ELSE IF Get(dat, "ai_overview").t # "dict"
    THEN [NoRows EXCEPT !.status = "INVALID_AIO", !.key = key]
    ELSE IF ok_saves = 1
    THEN [NoRows EXCEPT !.raised = TRUE, !.key = key]
    ELSE Success(find_brands_in_aio(Get(dat, "ai_overview"), catalog, kw,
                                    ord, key, cls))

(***************************************************************************)
(* normalize_host applied to the strings made of at most MaxParts pieces   *)
(***************************************************************************)
MaxParts == 5

\* the string https:
P_https == <<"h","t","t","p","s",":">>
\* the string //
P_slashes == <<"/","/">>
\* the string www.
P_www == <<"w","w","w",".">>
\* the string Nike.com
P_Nike == <<"N","i","k","e",".","c","o","m">>
\* the string /shoes?x=1
P_path == <<"/","s","h","o","e","s","?","x","=","1">>
\* the string not a url
P_notaurl == <<"n","o","t"," ","a"," ","u","r","l">>
\* the string [
P_bracket == <<"[">>
\* the string :80
P_port == <<":","8","0">>

Pieces ==
    {P_https, P_slashes, P_www, P_Nike, P_path, P_notaurl, P_bracket, P_port}

PartSeqs == UNION {[1..n -> Pieces] : n \in 0..MaxParts}

NotCalled == [raised |-> FALSE, value |-> <<"?">>]

NotFound == [raised |-> FALSE, rows |-> <<>>, key |-> FALSE]

HostIdle == parts = <<>> /\ u = <<>> /\ host_out = NotCalled

MatchIdle ==
    /\ aio_json = JNull
    /\ keyword = ""
    /\ url_order = <<>>
    /\ found = NotFound

EnvIdle ==
    /\ brands = <<>>
    /\ GEMINI_API_KEY = FALSE
    /\ llm = [init |-> TRUE, attempts |-> <<"good", "good", "good">>]

EmptyRow == Row("", <<>>, <<>>, JNull, "", <<>>, <<>>, "")

\* the header line of the output file
HeaderLine == [kind |-> "header", row |-> EmptyRow]

RowLine(r) == [kind |-> "row", row |-> r]

NoStore == [exists |-> FALSE, lines |-> <<>>]

ZeroStats(n) ==
    [total |-> n, success |-> 0, no_aio |-> 0, api_error |-> 0,
     brands_found |-> 0]

NoLast == [status |-> "", raised |-> FALSE, write_failed |-> FALSE]

MainIdle ==
    /\ keywords = <<>>
    /\ idx = 0
    /\ store = NoStore
    /\ stats = ZeroStats(0)
    /\ last = NoLast
    /\ run_start = 0
    /\ runs = 0

FetchIdle == net = <<>> /\ body = JNull /\ requests_made = 0

KwIdle == data = JNull /\ saves = 0 /\ result = NoRows /\ FetchIdle

InitHost ==
    /\ pc = "host_call"
    /\ parts \in PartSeqs
    /\ u = Concat(parts)
    /\ host_out = NotCalled
    /\ MatchIdle
    /\ EnvIdle
    /\ MainIdle
    /\ KwIdle

CallNormalizeHost ==
    /\ pc = "host_call"
    /\ host_out' = normalize_host(u)
    /\ pc' = "host_done"
    /\ UNCHANGED <<parts, u, matchVars, envVars, mainVars, kwVars>>

NextHost == CallNormalizeHost

SpecHost == InitHost /\ [][NextHost]_vars

(***************************************************************************)
(* find_brands_in_aio applied to the payloads and catalogs below           *)
(***************************************************************************)
MaxRefs == 1
MaxBrands == 2

\* the string https://www.Nike.com/new
U_nike ==
    <<"h","t","t","p","s",":","/","/","w","w","w",".","N","i","k","e",".","c","o","m","/","n","e","w">>
\* the string http://shop.nike.com
U_shop ==
    <<"h","t","t","p",":","/","/","s","h","o","p",".","n","i","k","e",".","c","o","m">>
\* the string https://notnike.com/x
U_not ==
    <<"h","t","t","p","s",":","/","/","n","o","t","n","i","k","e",".","c","o","m","/","x">>
\* the string https://example.org/a
U_other ==
    <<"h","t","t","p","s",":","/","/","e","x","a","m","p","l","e",".","o","r","g","/","a">>
\* the string ftp://nike.com
U_ftp ==
    <<"f","t","p",":","/","/","n","i","k","e",".","c","o","m">>
\* the string Many brands make running shoes.
T_plain ==
    <<"M","a","n","y"," ","b","r","a","n","d","s"," ","m","a","k","e"," ","r","u","n","n","i","n","g"," ","s","h","o","e","s",".">>
\* the string Nike and AIR JORDAN lead.
T_alias ==
    <<"N","i","k","e"," ","a","n","d"," ","A","I","R"," ","J","O","R","D","A","N"," ","l","e","a","d",".">>
\* the string see https://nike.com
T_url ==
    <<"s","e","e"," ","h","t","t","p","s",":","/","/","n","i","k","e",".","c","o","m">>
\* the string nike.com
D_nike == <<"n","i","k","e",".","c","o","m">>
\* the string Nike.com
D_Nike == <<"N","i","k","e",".","c","o","m">>
\* the string www.nike.com
D_wwwnike == <<"w","w","w",".","n","i","k","e",".","c","o","m">>
\* the string adidas.com
D_adidas == <<"a","d","i","d","a","s",".","c","o","m">>
\* the string nike
A_nike == <<"n","i","k","e">>
\* the string Air Jordan
A_jordan == <<"A","i","r"," ","J","o","r","d","a","n">>
\* the string adidas
A_adidas == <<"a","d","i","d","a","s">>

\* a key that is not in the object
Absent == [t |-> "absent", s |-> <<>>, kv |-> <<>>]

Opt(key, v) == IF v = Absent THEN <<>> ELSE << <<key, v>> >>

LinkEntry(url) == JDict(<< <<"link", JStr(url)>> >>)

\* what an entry of "references" may be: a link, or a URL under another key
RefEntries ==
    {LinkEntry(U_nike), LinkEntry(U_not), LinkEntry(U_other),
     JDict(<< <<"title", JStr(U_shop)>> >>)}

RefVals ==
    {Absent, JNum}
    \cup {JList(l) : l \in UNION {[1..n -> RefEntries] : n \in 0..MaxRefs}}

\* what "text_blocks" may be
BlockVals ==
    {Absent,
     \* a block of prose that names a URL
     JList(<< JDict(<< <<"snippet", JStr(T_url)>> >>) >>),
     \* a block with a snippet link and a list of two links, one not http
     JList(<< JDict(<< <<"snippet_links", JList(<<LinkEntry(U_shop)>>)>>,
                       <<"list", JList(<<LinkEntry(U_not),
                                         LinkEntry(U_ftp)>>)>> >>) >>),
     \* a block whose snippet_links is a number
     JList(<< JDict(<< <<"snippet_links", JNum>> >>) >>),
     \* a block whose "list" is an object, a block with a link of its own
     \* and a block that is a string
     JList(<< JDict(<< <<"list", LinkEntry(U_nike)>> >>),
              LinkEntry(U_shop),
              JStr(A_adidas) >>)}

AnswerVals == {JStr(T_plain), JStr(T_alias)}

Payloads ==
    {JDict(Opt("answer", a) \o Opt("references", r) \o Opt("text_blocks", b)) :
        a \in AnswerVals, r \in RefVals, b \in BlockVals}

BrandEntry(domain, aliases) == [domain |-> domain, aliases |-> aliases]

\* the entries a catalog is made of
CatalogEntries ==
    {BrandEntry(D_nike, JList(<<JStr(A_nike), JStr(A_jordan)>>)),
     BrandEntry(D_nike, JList(<<JStr(<<>>), JStr(A_jordan)>>)),
     BrandEntry(D_Nike, JList(<<JStr(A_jordan)>>)),
     BrandEntry(D_wwwnike, JList(<<>>)),
     BrandEntry(D_adidas, JList(<<JStr(A_adidas)>>)),
     BrandEntry(D_adidas, JList(<<JNum>>))}

\* the catalogs: the keys of a JSON object are distinct
Catalogs ==
    {c \in UNION {[1..n -> CatalogEntries] : n \in 0..MaxBrands} :
        \A i, j \in 1..Len(c) : i # j => c[i].domain # c[j].domain}

LlmOk == [init |-> TRUE, attempts |-> <<"good", "good", "good">>]
LlmBadKey == [init |-> TRUE, attempts |-> <<"fail", "badkey", "good">>]

\* GEMINI_API_KEY and the classifier's behaviour
Classifiers == {<<FALSE, LlmOk>>, <<TRUE, LlmBadKey>>}

Keywords == {"best running shoes"}

InitMatch ==
    /\ pc = "match_call"
    /\ aio_json \in Payloads
    /\ brands \in Catalogs
    /\ keyword \in Keywords
    /\ \E c \in Classifiers : GEMINI_API_KEY = c[1] /\ llm = c[2]
    /\ url_order = <<>>
    /\ found = NotFound
    /\ HostIdle
    /\ MainIdle
    /\ KwIdle

CallFindBrands ==
    /\ pc = "match_call"
    /\ \E ord \in Orders(extract_urls_from_aio(aio_json).urls) :
          /\ url_order' = ord
          /\ found' = find_brands_in_aio(aio_json, brands, keyword, ord,
                                         GEMINI_API_KEY, llm)
    /\ GEMINI_API_KEY' = found'.key
    /\ pc' = "match_done"
    /\ UNCHANGED <<aio_json, keyword, brands, llm, hostVars, mainVars, kwVars>>

NextMatch == CallFindBrands

SpecMatch == InitMatch /\ [][NextMatch]_vars

(***************************************************************************)
(* main: runs of the tracker over the keyword file                         *)
(***************************************************************************)
MaxKeywords == 2
MaxRuns == 2
MaxRunKeywords == 1

MainKeywords == {"k1", "k2"}

KeywordLists == UNION {[1..n -> MainKeywords] : n \in 0..MaxKeywords}

\* the keyword files of the runs that follow the first
RunKeywordLists == UNION {[1..n -> MainKeywords] : n \in 0..MaxRunKeywords}

SearchMetadata == <<"search_metadata", JDict(<<>>)>>

\* the valid responses of the search API: without an AI overview, with a
\* null one, with one that names no brand, with one that cites nike.com
MainResponses ==
    {JDict(<<SearchMetadata>>),
     JDict(<<SearchMetadata, <<"ai_overview", JNull>> >>),
     JDict(<<SearchMetadata,
             <<"ai_overview", JDict(<< <<"answer", JStr(T_plain)>> >>)>> >>),
     JDict(<<SearchMetadata,
             <<"ai_overview",
               JDict(<< <<"answer", JStr(T_alias)>>,
                        <<"references", JList(<<LinkEntry(U_nike)>>)>> >>)>> >>)}

\* what fetch_google_search_serpapi may return when the valid responses
\* are resps
FetchData(resps) ==
    {fetch_google_search_serpapi(outs, resp).data :
        outs \in [1..max_retries -> AttemptOutcomes], resp \in resps}

FetchResults == FetchData(MainResponses)

MainCatalogs ==
    {<<BrandEntry(D_nike, JList(<<JStr(A_nike), JStr(A_jordan)>>))>>,
     <<BrandEntry(D_adidas, JList(<<JNum>>))>>}

InitMain ==
    /\ pc = "main_idle"
    /\ brands \in MainCatalogs
    /\ \E c \in Classifiers : GEMINI_API_KEY = c[1] /\ llm = c[2]
    /\ MainIdle
    /\ HostIdle
    /\ MatchIdle
    /\ KwIdle

\* a start of main that opens the output file for writing whether or not
\* it exists
BeginRunTruncating(ks) ==
    /\ keywords' = ks
    /\ stats' = ZeroStats(Len(ks))
    /\ store' = [exists |-> TRUE, lines |-> <<HeaderLine>>]
    /\ run_start' = Len(store'.lines)
    /\ idx' = 0
    /\ last' = NoLast
    /\ runs' = runs + 1
    /\ pc' = "main_loop"
    /\ UNCHANGED <<hostVars, matchVars, envVars, kwVars>>

\* main() up to its loop, over the keyword file ks: the keywords are read,
\* the header is written when the output file does not exist, the tally is
\* reset
BeginRun(ks) ==
    /\ keywords' = ks
    /\ stats' = ZeroStats(Len(ks))
    /\ store' = IF store.exists THEN store
                ELSE [exists |-> TRUE, lines |-> <<HeaderLine>>]
    /\ run_start' = Len(store'.lines)
    /\ idx' = 0
    /\ last' = NoLast
    /\ runs' = runs + 1
    /\ pc' = "main_loop"
    /\ UNCHANGED <<hostVars, matchVars, envVars, kwVars>>

\* the first run of main
StartMain ==
    /\ pc = "main_idle"
    /\ \E ks \in KeywordLists : BeginRun(ks)

\* a later run of main, over the output file the earlier runs left
RestartMain ==
    /\ pc = "main_done"
    /\ runs < MaxRuns
    /\ \E ks \in RunKeywordLists : BeginRun(ks)

\* the tally after process_keyword returned status
Tally(st, status) ==
    CASE status = "SUCCESS" -> [st EXCEPT !.success = @ + 1]
      [] status = "NO_AIO" -> [st EXCEPT !.no_aio = @ + 1]
      [] status = "API_ERROR" -> [st EXCEPT !.api_error = @ + 1]
      [] OTHER -> st

\* the links of the overview of a response, when it has one
ResponseUrls(dat) ==
    IF dat.t = "dict" /\ Get(dat, "ai_overview").t = "dict"
    THEN extract_urls_from_aio(Get(dat, "ai_overview")).urls
    ELSE {}

\* the lines of rows[1..n]
Lines(rows, n) == [i \in 1..n |-> RowLine(rows[i])]

\* the rest of an iteration, r being what process_keyword did.  written is
\* how the append goes: -1 when it succeeds, else the number of rows that
\* reached the file before the write raised.
AfterKeyword(r) ==
    \E written \in -1..Len(r.rows) :
        /\ written = 0 => r.rows # <<>>
        /\ last' = [status |-> r.status, raised |-> r.raised,
                    write_failed |-> written >= 0]
        /\ GEMINI_API_KEY' = r.key
        /\ IF r.raised
           THEN /\ stats' = [stats EXCEPT !.api_error = @ + 1]
                /\ store' = store
           ELSE IF r.rows = <<>>
           THEN /\ stats' = Tally(stats, r.status)
                /\ store' = store
           ELSE IF written = -1
           THEN /\ stats' = [Tally(stats, r.status) EXCEPT
                                !.brands_found = @ + Len(r.rows)]
                /\ store' = [store EXCEPT
                                !.lines = @ \o Lines(r.rows, Len(r.rows))]
           ELSE /\ stats' = [Tally(stats, r.status) EXCEPT
                                !.api_error = @ + 1]
                /\ store' = [store EXCEPT
                                !.lines = @ \o Lines(r.rows, written)]

\* the rest of an iteration in a loop that a failure ends
AbortingAfter(r) ==
    /\ AfterKeyword(r)
    /\ pc' = IF last'.raised \/ last'.write_failed THEN "main_aborted" ELSE pc

\* one iteration of a loop that does not catch the exceptions of its body
LoopStepAborting ==
    /\ pc = "main_loop"
    /\ idx < Len(keywords)
    /\ \E dat \in FetchResults, ok_saves \in 0..2 :
        \E ord \in Orders(ResponseUrls(dat)) :
            AbortingAfter(process_keyword(dat, brands, keywords[idx + 1], ord,
                                          GEMINI_API_KEY, llm, ok_saves))
    /\ idx' = idx + 1
    /\ UNCHANGED <<keywords, run_start, runs, brands, llm, hostVars,
                   matchVars, kwVars>>

\* one iteration of main's loop
LoopStep ==
    /\ pc = "main_loop"
    /\ idx < Len(keywords)
    /\ \E dat \in FetchResults, ok_saves \in 0..2 :
        \E ord \in Orders(ResponseUrls(dat)) :
            AfterKeyword(process_keyword(dat, brands, keywords[idx + 1], ord,
                                         GEMINI_API_KEY, llm, ok_saves))
    /\ idx' = idx + 1
    /\ UNCHANGED <<pc, keywords, run_start, runs, brands, llm, hostVars,
                   matchVars, kwVars>>

\* the loop is over: the final summary
LoopEnd ==
    /\ pc = "main_loop"
    /\ idx = Len(keywords)
    /\ pc' = "main_done"
    /\ UNCHANGED <<hostVars, matchVars, envVars, mainVars, kwVars>>

\* KeyboardInterrupt in the loop: break, then the final summary
Interrupt ==
    /\ pc = "main_loop"
    /\ idx < Len(keywords)
    /\ pc' = "main_done"
    /\ UNCHANGED <<hostVars, matchVars, envVars, mainVars, kwVars>>

NextMain == StartMain \/ LoopStep \/ LoopEnd \/ Interrupt

\* one run of main
SpecMain == InitMain /\ [][NextMain]_vars

\* a run of main that no KeyboardInterrupt ends; the program keeps
\* executing: an iteration or the summary that can be taken is taken
NextUninterrupted == StartMain \/ LoopStep \/ LoopEnd

SpecUninterrupted ==
    /\ InitMain
    /\ [][NextUninterrupted]_vars
    /\ WF_vars(LoopStep)
    /\ WF_vars(LoopEnd)

NextRuns == NextMain \/ RestartMain

\* a sequence of runs of main
SpecRuns == InitMain /\ [][NextRuns]_vars

(***************************************************************************)
(* process_keyword applied to what the fetch may return                    *)
(***************************************************************************)
\* responses whose ai_overview is not an object, or an empty one
OddResponses ==
    {JDict(<<SearchMetadata, <<"ai_overview", v>> >>) :
        v \in {JStr(T_plain), JNum, JList(<<>>), JDict(<<>>)}}

\* responses whose ai_overview is one of the payloads of the match engine
\* with a reference list
FullResponses ==
    {JDict(<<SearchMetadata, <<"ai_overview", p>> >>) :
        p \in {q \in Payloads : Get(q, "references").t = "list"
                                 /\ ~HasKey(q, "text_blocks")}}

KeywordResponses == MainResponses \cup OddResponses \cup FullResponses

InitKeyword ==
    /\ pc = "keyword_call"
    /\ data \in FetchData(KeywordResponses)
    /\ saves \in 0..2
    /\ brands \in Catalogs
    /\ keyword \in Keywords
    /\ \E c \in Classifiers : GEMINI_API_KEY = c[1] /\ llm = c[2]
    /\ result = NoRows
    /\ FetchIdle
    /\ aio_json = JNull
    /\ url_order = <<>>
    /\ found = NotFound
    /\ HostIdle
    /\ MainIdle

CallProcessKeyword ==
    /\ pc = "keyword_call"
    /\ \E ord \in Orders(ResponseUrls(data)) :
          /\ url_order' = ord
          /\ result' = process_keyword(data, brands, keyword, ord,
                                       GEMINI_API_KEY, llm, saves)
    /\ GEMINI_API_KEY' = result'.key
    /\ pc' = "keyword_done"
    /\ UNCHANGED <<data, saves, net, body, requests_made, aio_json, keyword,
                   found, brands, llm, hostVars, mainVars>>

NextKeyword == CallProcessKeyword

SpecKeyword == InitKeyword /\ [][NextKeyword]_vars

(***************************************************************************)
(* process_keyword from its fetch on: fetch_google_search_serpapi, then    *)
(* the rest of process_keyword                                             *)
(***************************************************************************)
InitFetch ==
    /\ pc = "fetch_call"
    /\ net \in [1..max_retries -> AttemptOutcomes]
    /\ body \in MainResponses
    /\ requests_made = 0
    /\ data = JNull
    /\ saves \in 0..2
    /\ result = NoRows
    /\ brands \in MainCatalogs
    /\ keyword \in Keywords
    /\ GEMINI_API_KEY = FALSE
    /\ llm = LlmOk
    /\ aio_json = JNull
    /\ url_order = <<>>
    /\ found = NotFound
    /\ HostIdle
    /\ MainIdle

\* data = fetch_google_search_serpapi(keyword)
CallFetch ==
    /\ pc = "fetch_call"
    /\ data' = fetch_google_search_serpapi(net, body).data
    /\ requests_made' = fetch_google_search_serpapi(net, body).requests
    /\ pc' = "keyword_call"
    /\ UNCHANGED <<saves, result, net, body, hostVars, matchVars, envVars,
                   mainVars>>

NextFetch == CallFetch \/ CallProcessKeyword

SpecFetch == InitFetch /\ [][NextFetch]_vars

(***************************************************************************)
(* find_brands_in_aio under every behaviour of the sentiment classifier    *)
(***************************************************************************)
\* what generate_content may do at one attempt: answer a label, answer
\* something else, raise, raise "API key not valid"
AttemptResults == {"good", "neutral", "bad", "other", "fail", "badkey"}

\* what the classifier may do during one call of find_brands_in_aio
LlmBehaviours ==
    {[init |-> FALSE, attempts |-> LlmOk.attempts]}
    \cup {[init |-> TRUE, attempts |-> a] : a \in [1..Retries -> AttemptResults]}

\* overviews whose answer is absent, shorter than 20 characters, long
\* enough, or a number
SentimentPayloads ==
    {JDict(Opt("answer", a) \o Opt("references", r)) :
        a \in {Absent, JStr(A_nike), JStr(T_alias), JNum},
        r \in {Absent, JList(<<LinkEntry(U_nike)>>),
               JList(<<LinkEntry(U_other)>>)}}

SentimentCatalogs ==
    {<<BrandEntry(D_nike, JList(<<JStr(A_nike), JStr(A_jordan)>>))>>,
     <<BrandEntry(D_nike, JList(<<JStr(A_nike), JStr(A_jordan)>>)),
       BrandEntry(D_wwwnike, JList(<<>>))>>}

InitSentiment ==
    /\ pc = "match_call"
    /\ aio_json \in SentimentPayloads
    /\ brands \in SentimentCatalogs
    /\ keyword \in Keywords
    /\ GEMINI_API_KEY \in BOOLEAN
    /\ llm \in LlmBehaviours
    /\ url_order = <<>>
    /\ found = NotFound
    /\ HostIdle
    /\ MainIdle
    /\ KwIdle

SpecSentiment == InitSentiment /\ [][NextMatch]_vars

(***************************************************************************)
(* Properties of normalize_host (under SpecHost)                           *)
(***************************************************************************)
\* the pieces of the network location: those before the first piece that
\* starts a path
RECURSIVE AuthorityParts(_)
AuthorityParts(ps) ==
    IF ps = <<>> \/ Head(ps) \in {P_slashes, P_path} THEN <<>>
    ELSE <<Head(ps)>> \o AuthorityParts(Tail(ps))

\* lower-cased, one leading "www." removed
Canonical(h) ==
    IF StartsWith(Lower(h), S_www) THEN DropFirst(Lower(h), 4) ELSE Lower(h)

\* the string nike.com
H_nike == <<"n","i","k","e",".","c","o","m">>

\* C7 as stated: normalize_host never raises, and every input without a
\* scheme gives the empty string.
C7_NoSchemeGivesEmpty ==
    pc = "host_done" =>
        /\ ~host_out.raised
        /\ (AfterScheme(u) = u => host_out.value = <<>>)

\* C7 as amended: normalize_host never raises.  For [https:]//authority
\* followed by nothing or by a path it returns the lower-cased authority
\* (port included) with one leading "www." removed, whether or not the
\* scheme is there, and "" when the authority has an unbalanced bracket.
\* It returns "" when what follows the optional scheme does not start with
\* "//".  https://www.Nike.com/shoes?x=1 gives nike.com and "not a url"
\* gives "".
C7_NormalizeHost ==
    pc = "host_done" =>
        /\ ~host_out.raised
        /\ host_out.value = Lower(host_out.value)
        /\ \A pre \in {<<>>, <<P_https>>} :
              \A n \in 0..Len(parts) :
                 (SubSeq(parts, 1, n) = pre \o <<P_slashes>>) =>
                    LET auth == AuthorityParts(SubSeq(parts, n + 1, Len(parts)))
                    IN host_out.value =
                         IF \E k \in 1..Len(auth) : auth[k] = P_bracket
                         THEN <<>>
                         ELSE Canonical(Concat(auth))
        /\ (\A k \in 1..Len(parts) : parts[k] # P_slashes) =>
              host_out.value = <<>>
        /\ (parts = <<P_https, P_slashes, P_www, P_Nike, P_path>> =>
              host_out.value = H_nike)
        /\ (parts = <<P_notaurl>> => host_out.value = <<>>)

\* C7 witness: a URL without a scheme and with a port has been normalised
\* to its host and port
C7_Witness ==
    /\ pc = "host_done"
    /\ parts = <<P_slashes, P_www, P_Nike, P_port, P_path>>
    /\ host_out.value = H_nike \o P_port

(***************************************************************************)
(* Properties of find_brands_in_aio (under SpecMatch)                      *)
(***************************************************************************)
\* brand_map of the catalog at hand (empty when building it raised)
Entries == BrandMap(brands).map

\* the extracted link set
Urls == extract_urls_from_aio(aio_json).urls

\* the links of a set whose normalized host ends with the domain
UrlEvidence(urls, domain) ==
    {x \in urls : EndsWith(normalize_host(x).value, DomainCore(domain))}

\* the non-empty aliases of an entry that occur in the flattened text
AliasEvidence(flat, e) ==
    {j \in 2..Len(e.terms) : e.terms[j] # <<>> /\ Contains(flat, e.terms[j])}

\* the rows returned for a domain
RowsOf(domain) == {k \in 1..Len(found.rows) : found.rows[k].Brand = domain}

\* C1: one call returns at most one row per catalog domain: no two
\* returned rows have the same Brand.
C1_OneRecordPerDomain ==
    pc = "match_done" =>
        \A i, j \in 1..Len(found.rows) :
            found.rows[i].Brand = found.rows[j].Brand => i = j

\* C1 witness: a domain with both a matching link and an alias in the text,
\* listed under two keys that differ only in case, got its single row
C1_Witness ==
    /\ pc = "match_done"
    /\ Len(brands) = 2
    /\ Lower(brands[1].domain) = Lower(brands[2].domain)
    /\ \E e \in {Entries[i] : i \in 1..Len(Entries)} :
          /\ UrlEvidence(Urls, e.domain) # {}
          /\ AliasEvidence(FlatText(aio_json), e) # {}
    /\ Len(found.rows) = 1

\* a host matches a domain on a label boundary: it is the domain or ends
\* with "." and the domain
HostMatchesLabel(h, domain_core) ==
    h = domain_core \/ EndsWith(h, <<".">> \o domain_core)

\* the links of a set whose normalized host matches the domain on a label
\* boundary
UrlEvidenceLabel(urls, domain) ==
    {x \in urls : HostMatchesLabel(normalize_host(x).value, DomainCore(domain))}

\* C2 as stated: a domain with both a qualifying link (one whose normalized
\* host matches the domain on a label boundary) and an alias in the
\* flattened text gets exactly one row, from the URL tier: Matched Term is
\* the domain and URL a qualifying link.
C2_UrlTierWins ==
    (pc = "match_done" /\ ~found.raised) =>
        LET es == Entries
            urls == Urls
            flat == FlatText(aio_json)
        IN \A i \in 1..Len(es) :
              LET e == es[i]
                  ue == UrlEvidenceLabel(urls, e.domain)
              IN (ue # {} /\ AliasEvidence(flat, e) # {}) =>
                    /\ Cardinality(RowsOf(e.domain)) = 1
                    /\ \A k \in RowsOf(e.domain) :
                          /\ found.rows[k].MatchedTerm = e.domain
                          /\ found.rows[k].URL \in ue

\* C3 as stated: a row of the URL tier (Matched Term = Brand) is backed by
\* a link whose host is the domain or ends with "." and the domain.
C3_LabelBoundary ==
    pc = "match_done" =>
        \A k \in 1..Len(found.rows) :
            found.rows[k].MatchedTerm = found.rows[k].Brand =>
                HostMatchesLabel(normalize_host(found.rows[k].URL).value,
                                 DomainCore(found.rows[k].Brand))

\* C5 as stated: a domain without a qualifying link, one of whose aliases
\* occurs in the flattened text, gets exactly one row; its Matched Term is
\* the first such alias and its URL a member of the link set, or "" when
\* the set is empty.
C5_AliasTier ==
    (pc = "match_done" /\ ~found.raised) =>
        LET es == Entries
            urls == Urls
            flat == FlatText(aio_json)
        IN \A i \in 1..Len(es) :
              LET e == es[i]
                  ae == AliasEvidence(flat, e)
              IN (UrlEvidence(urls, e.domain) = {} /\ ae # {}) =>
                    /\ Cardinality(RowsOf(e.domain)) = 1
                    /\ \A k \in RowsOf(e.domain) :
                          /\ found.rows[k].MatchedTerm = e.terms[Min(ae)]
                          /\ IF urls = {} THEN found.rows[k].URL = <<>>
                             ELSE found.rows[k].URL \in urls

\* C6 as stated: every returned row is backed by evidence: its Brand is a
\* catalog domain with a link whose normalized host matches the domain on a
\* label boundary, or with an alias (not the domain itself) in the
\* flattened text.  A catalog none of whose domains has either gives no row.
C6_RowsHaveEvidence ==
    pc = "match_done" =>
        LET es == Entries
            urls == Urls
            flat == FlatText(aio_json)
            backed == {i \in 1..Len(es) :
                         \/ UrlEvidenceLabel(urls, es[i].domain) # {}
                         \/ AliasEvidence(flat, es[i]) # {}}
        IN /\ \A k \in 1..Len(found.rows) :
                \E i \in backed : es[i].domain = found.rows[k].Brand
           /\ (backed = {} => found.rows = <<>>)

\* the http-prefixed strings under a "link" key of the entries of a list
ExpectedLinksIn(v) ==
    IF v.t # "list" THEN {}
    ELSE UNION {{it.kv[j].v.s :
                    j \in {n \in 1..Len(it.kv) :
                             /\ it.kv[n].k = "link"
                             /\ it.kv[n].v.t = "str"
                             /\ StartsWith(it.kv[n].v.s, S_http)}} :
                it \in {v.kv[i].v : i \in {m \in 1..Len(v.kv) :
                                             v.kv[m].v.t = "dict"}}}

\* the http-prefixed strings under a "link" key in references entries, in
\* text_blocks[].snippet_links entries and in text_blocks[].list entries
ExpectedLinks(aio) ==
    LET tb == Get(aio, "text_blocks")
        bs == IF tb.t # "list" THEN {}
              ELSE {tb.kv[i].v : i \in {m \in 1..Len(tb.kv) :
                                          tb.kv[m].v.t = "dict"}}
    IN ExpectedLinksIn(Get(aio, "references")) \cup
       UNION {ExpectedLinksIn(Get(b, "snippet_links")) \cup
              ExpectedLinksIn(Get(b, "list")) : b \in bs}

RECURSIVE StringsIn(_)
\* the strings that occur as values anywhere in a payload
StringsIn(v) ==
    IF v.t = "str" THEN {v.s}
    ELSE UNION {StringsIn(v.kv[i].v) : i \in 1..Len(v.kv)}

\* C8 as stated: for every payload extract_urls_from_aio returns exactly
\* the http-prefixed strings under a link key at the three link positions;
\* every URL string of the payload is among the strings flatten_json
\* returns; and the URL of a URL-tier row is one of the extracted links.
C8_ExtractExactlyLinks ==
    pc = "match_done" =>
        LET x == extract_urls_from_aio(aio_json)
            flat == flatten_json(aio_json)
            want == ExpectedLinks(aio_json)
        IN /\ ~x.raised
           /\ x.urls = want
           /\ \A str \in StringsIn(aio_json) :
                 StartsWith(str, S_http) =>
                    \E n \in 1..Len(flat) : flat[n] = str
           /\ \A k \in 1..Len(found.rows) :
                 found.rows[k].MatchedTerm = found.rows[k].Brand =>
                    found.rows[k].URL \in want

\* a catalog entry whose alias value is a non-empty list of strings
WellFormedEntry(e) ==
    /\ e.aliases.t = "list"
    /\ Len(e.aliases.kv) > 0
    /\ \A i \in 1..Len(e.aliases.kv) : e.aliases.kv[i].v.t = "str"

\* C10 as stated: with a malformed entry in the catalog (a non-string
\* alias, an empty alias list) the call still completes, returns the rows
\* it returns for the well-formed entries alone, and none for the entry
\* that is skipped.
C10_MalformedEntrySkipped ==
    (pc = "match_done" /\ ~extract_urls_from_aio(aio_json).raised) =>
        LET good == SelectSeq(brands, WellFormedEntry)
            want == find_brands_in_aio(aio_json, good, keyword, url_order,
                                       FALSE, llm).rows
        IN /\ ~found.raised
           /\ \A k \in 1..Len(want) :
                 \E m \in 1..Len(found.rows) :
                    /\ found.rows[m].Brand = want[k].Brand
                    /\ found.rows[m].MatchedTerm = want[k].MatchedTerm
                    /\ found.rows[m].URL = want[k].URL
           /\ \A i \in 1..Len(brands) :
                 ~WellFormedEntry(brands[i]) =>
                    RowsOf(Lower(brands[i].domain)) = {}

(***************************************************************************)
(* Properties of get_llm_sentiment in find_brands_in_aio (under            *)
(* SpecSentiment)                                                          *)
(***************************************************************************)
\* the (Brand, Matched Term, URL) of the rows of a list
Mentions(rows) ==
    {<<rows[k].Brand, rows[k].MatchedTerm, rows[k].URL>> : k \in 1..Len(rows)}

\* the labels get_llm_sentiment returns
SentimentLabels ==
    {"good", "neutral", "bad", "not_configured", "no_text", "model_error",
     "api_key_invalid", "error"}

\* C11 as stated: whatever the classifier does, the call of
\* find_brands_in_aio does not raise, every row carries a label of
\* get_llm_sentiment, and the (Brand, Matched Term, URL) of the rows are
\* those returned with a configured classifier that answers "good".
C11_SentimentNeverBlocks ==
    pc = "match_done" =>
        /\ ~found.raised
        /\ \A k \in 1..Len(found.rows) :
              found.rows[k].Sentiment \in SentimentLabels
        /\ Mentions(found.rows) =
              Mentions(find_brands_in_aio(aio_json, brands, keyword,
                                          url_order, TRUE, LlmOk).rows)

(***************************************************************************)
(* Properties of main (under SpecMain)                                     *)
(***************************************************************************)
\* the places in the output file of the rows appended since the run began
Appended == (run_start + 1)..Len(store.lines)

\* C4 as stated: when a run of main has gone through its whole keyword
\* list, the rows it appended have pairwise distinct (Keyword, Brand).
C4_OneRowPerKeywordBrand ==
    (pc = "main_done" /\ idx = Len(keywords)) =>
        \A i, j \in Appended :
            (/\ store.lines[i].row.Keyword = store.lines[j].row.Keyword
             /\ store.lines[i].row.Brand = store.lines[j].row.Brand) => i = j

(***************************************************************************)
(* Properties of a run that is not interrupted (under SpecUninterrupted)   *)
(***************************************************************************)
\* the iteration just taken failed: process_keyword raised (matching, the
\* debug JSON) or the append to the output file raised
FailedIteration == idx' = idx + 1 /\ (last'.raised \/ last'.write_failed)

\* C13: an iteration of the loop that fails leaves the run in its loop, at
\* the next keyword of the same list; and a run in its loop reaches the
\* final summary, having gone through every keyword.
C13_FailureDoesNotAbort ==
    /\ [][FailedIteration =>
            /\ pc' = "main_loop"
            /\ keywords' = keywords]_vars
    /\ (pc = "main_loop") ~> (pc = "main_done" /\ idx = Len(keywords))

\* C13 witness: the append of the first of two keywords failed, the second
\* keyword was processed and appended, and the run reached its summary
C13_Witness ==
    /\ pc = "main_done"
    /\ idx = 2
    /\ stats.success = 2
    /\ stats.api_error = 1
    /\ ~last.write_failed

\* the terminal statuses of a keyword
Statuses == {"SUCCESS", "NO_AIO", "INVALID_AIO", "API_ERROR"}

\* C14 as stated: at the end of a run that was not interrupted the last
\* keyword (as every keyword before it) got one of the four statuses
\* unless its processing raised, success + no_aio + api_error is the number
\* of keywords, and brands_found is the number of rows the run appended.
C14_TallyAccountsForAll ==
    pc = "main_done" =>
        /\ (idx > 0 /\ ~last.raised) => last.status \in Statuses
        /\ stats.total = Len(keywords)
        /\ stats.success + stats.no_aio + stats.api_error = stats.total
        /\ stats.brands_found = Len(store.lines) - run_start

(***************************************************************************)
(* Properties of the output file over several runs (under SpecRuns)        *)
(***************************************************************************)
\* the header line, then mention rows only
HeaderThenRows ==
    IF store.exists
    THEN /\ store.lines # <<>>
         /\ store.lines[1] = HeaderLine
         /\ \A i \in 2..Len(store.lines) : store.lines[i].kind = "row"
    ELSE store.lines = <<>>

\* a step creates the file with the header alone, or leaves what the file
\* held as a prefix of what it holds
AppendOnly ==
    /\ (~store.exists /\ store'.exists) => store'.lines = <<HeaderLine>>
    /\ store.exists => store'.exists
    /\ Len(store.lines) <= Len(store'.lines)
    /\ SubSeq(store'.lines, 1, Len(store.lines)) = store.lines

\* C12: over any sequence of runs that starts without an output file, the
\* file, once it exists, is the header line followed by mention rows (so
\* the header occurs once, first); the file is created with the header
\* alone, and every step leaves its earlier content as a prefix.
C12_HeaderOnceAppendOnly == []HeaderThenRows /\ [][AppendOnly]_vars

\* C12 witness: a second run has appended rows after those of the first
C12_Witness ==
    /\ runs = 2
    /\ run_start > 1
    /\ Len(store.lines) > run_start
    /\ store.lines[1] = HeaderLine

(***************************************************************************)
(* Properties of fetch_google_search_serpapi (under SpecFetch)             *)
(***************************************************************************)
\* the failures after which the next request is sent
Retried == {"timeout", "request_error", "api_error", "no_metadata"}

\* the attempts that end the loop: a valid response, an invalid API key
\* and an unexpected exception
Ending == {n \in 1..max_retries : net[n] \notin Retried}

\* C15: the fetch sends at most max_retries requests.  Every request before
\* the last one sent failed by a timeout, a request error, a provider error
\* or a response without search_metadata; the first attempt that is valid,
\* an invalid API key or an unexpected exception is the last request.  The
\* fetch returns the body of that attempt when it is valid and None
\* otherwise, and process_keyword then returns no row and API_ERROR without
\* raising.
C15_BoundedFetch ==
    pc # "fetch_call" =>
        /\ requests_made \in 1..max_retries
        /\ \A n \in 1..(requests_made - 1) : net[n] \in Retried
        /\ requests_made = IF Ending = {} THEN max_retries ELSE Min(Ending)
        /\ data = IF net[requests_made] = "ok" THEN body ELSE JNull
        /\ (pc = "keyword_done" /\ data = JNull) =>
              /\ ~result.raised
              /\ result.rows = <<>>
              /\ result.status = "API_ERROR"

\* C15 witness: a timeout, then an invalid API key: two requests, no data,
\* and API_ERROR from process_keyword
C15_Witness ==
    /\ pc = "keyword_done"
    /\ net = <<"timeout", "invalid_key", "ok">>
    /\ requests_made = 2
    /\ data = JNull
    /\ result.status = "API_ERROR"

(***************************************************************************)
(* Properties of process_keyword (under SpecKeyword)                       *)
(***************************************************************************)
\* the fetch returned no data
NoData == ~Truthy(data)

\* the response has no ai_overview key
NoOverviewKey == Truthy(data) /\ ~HasKey(data, "ai_overview")

\* the response has an ai_overview that is null
NullOverview ==
    /\ Truthy(data)
    /\ HasKey(data, "ai_overview")
    /\ Get(data, "ai_overview").t = "null"

\* C9 as stated: when the fetch returns no data, the response has no
\* ai_overview key or its ai_overview is null, process_keyword returns an
\* empty row list and the status NO_AIO, without raising.
C9_NullOrAbsentIsNoAio ==
    (pc = "keyword_done" /\ (NoData \/ NoOverviewKey \/ NullOverview)) =>
        /\ ~result.raised
        /\ result.rows = <<>>
        /\ result.status = "NO_AIO"

\* C9 as amended: in those three cases process_keyword returns no row.
\* When the fetch returned no data it returns status API_ERROR.  Otherwise
\* it first saves the response, and raises when that write fails; when it
\* does not, the status is NO_AIO for a response without ai_overview key
\* and INVALID_AIO for a null ai_overview.
C9_NullOrAbsentStatus ==
    (pc = "keyword_done" /\ (NoData \/ NoOverviewKey \/ NullOverview)) =>
        /\ result.rows = <<>>
        /\ NoData => (~result.raised /\ result.status = "API_ERROR")
        /\ ~NoData => (result.raised <=> saves = 0)
        /\ (NoOverviewKey /\ saves > 0) => result.status = "NO_AIO"
        /\ (NullOverview /\ saves > 0) => result.status = "INVALID_AIO"

\* C9 witness: a response whose ai_overview is null has been processed and
\* reported as INVALID_AIO
C9_Witness ==
    /\ pc = "keyword_done"
    /\ NullOverview
    /\ ~result.raised
    /\ result.status = "INVALID_AIO"

====
